---- MODULE Spec2Model ----
(* Model of src/_vsa_validator.py: the retrieve / grade / web-search /       *)
(* generate graph and the Streamlit request handler that drives it.          *)
(* Python lists are objects on a heap, because the nodes append to the lists *)
(* they read from the state and hand the same objects on.                    *)
EXTENDS Integers, Sequences, FiniteSets, TLC

\* ---------------------------------------------------------------- bounds
MaxRequests == 2    \* chat inputs submitted in one session
MaxDocs == 2        \* longest list the retriever returns
MaxWeb == 2         \* longest result list the search service returns
MaxCalls == 2       \* calls of create_or_load_vectorstore
MaxSources == 2     \* longest source list given to it

\* ------------------------------------------------------- input domains
Questions == {"q1"}
Chunks == {"c1", "c2"}
Grades == {"yes", "no", "Yes"}
Hits == {[url |-> "u1", content |-> "w1"], [url |-> "u2", content |-> "w2"]}
Generations == {"ans"}

SeqsUpTo(S, n) == UNION {[1..m -> S] : m \in 0..n}

\* langchain Document(page_content, metadata)
Document(page_content, metadata) ==
    [page_content |-> page_content, metadata |-> metadata]

\* a chunk of the index, as the retriever returns it
ChunkDoc(c) == Document(c, [source |-> "./index_vsa/vsa.pdf"])

RetrieverOutputs == SeqsUpTo({ChunkDoc(c) : c \in Chunks}, MaxDocs)
SearchOutputs == SeqsUpTo(Hits, MaxWeb)

\* ------------------------------------------------------------ the heap
Null == 0

\* the address a newly created list gets: the smallest one not in use
Alloc(h) ==
    CHOOSE a \in 1..(Cardinality(DOMAIN h) + 1) :
        a \notin DOMAIN h /\ \A b \in 1..(a - 1) : b \in DOMAIN h

\* the heap with a new list object holding s
New(h, s) ==
    [a \in DOMAIN h \cup {Alloc(h)} |-> IF a \in DOMAIN h THEN h[a] ELSE s]

\* list.append / list.extend: the object at address a changes in place
ListAppend(h, a, x) == [h EXCEPT ![a] = Append(h[a], x)]

\* variant: the new documents replace the list
ExtendReplacing(old, more) == more

Extend(old, more) == old \o more

ListExtend(h, a, xs) == [h EXCEPT ![a] = Extend(h[a], xs)]

VARIABLES
    schedule_messages,  \* st.session_state.schedule_messages
    pc,                 \* where the handler / the graph is
    state,              \* the graph's channel values (GraphState)
    heap,               \* the list objects
    locals,             \* grade_documents' filtered_docs, search, loop index
    calls,              \* the external calls of the current request, in order
    errors,             \* number of st.error messages shown
    requests            \* chat inputs submitted so far

\* the index build-or-load step (create_or_load_vectorstore)
VARIABLES
    disk,     \* the persisted index under index_vsa/index
    ipc,      \* where create_or_load_vectorstore is
    frame,    \* its arguments and locals
    ilog,     \* what the current call has done, in order
    entry,    \* the disk at the start of the call and the call before it
    ncalls    \* calls of create_or_load_vectorstore so far

pvars == <<schedule_messages, pc, state, heap, locals, calls, errors, requests>>

ivars == <<disk, ipc, frame, ilog, entry, ncalls>>

vars == <<pvars, ivars>>

Nodes == {"retrieve", "grade_documents", "web_search", "generate"}

NoState ==
    [question |-> "", generation |-> "", search |-> "",
     documents |-> Null, steps |-> Null]

NoLocals == [filtered_docs |-> Null, search |-> "", i |-> 0]

\* one external call: the service, its argument, whether it returned, and
\* what it returned
Call(svc, arg, ok, ret) == [svc |-> svc, arg |-> arg, ok |-> ok, ret |-> ret]

\* the step-trace and the document list the graph state holds
Trace == IF state.steps = Null THEN <<>> ELSE heap[state.steps]
Docs == IF state.documents = Null THEN <<>> ELSE heap[state.documents]

InitPipeline ==
    /\ schedule_messages = <<>>
    /\ pc = "idle"
    /\ state = NoState
    /\ heap = <<>>
    /\ locals = NoLocals
    /\ calls = <<>>
    /\ errors = 0
    /\ requests = 0

\* ---------------------------------------------------------- run_streamlit
\* the lists still referenced once the script run is over
Referenced(msgs) ==
    {msgs[k].steps : k \in {j \in 1..Len(msgs) : msgs[j].role = "assistant"}}

\* variant: the run starts on a step list the session already holds
InitialStateShared(prompt, h) ==
    [question |-> prompt, generation |-> "", search |-> "",
     documents |-> Alloc(h),
     steps |-> IF Referenced(schedule_messages) = {}
               THEN Alloc(New(h, <<>>))
               ELSE CHOOSE x \in Referenced(schedule_messages) : TRUE]

\* the dict literal handed to app.invoke: two new empty lists
InitialState(prompt, h) ==
    [question |-> prompt, generation |-> "", search |-> "",
     documents |-> Alloc(h), steps |-> Alloc(New(h, <<>>))]

\* a chat input arrives: the user message is stored and the graph entered
Submit(prompt) ==
    /\ pc = "idle"
    /\ requests < MaxRequests
    /\ requests' = requests + 1
    /\ schedule_messages' =
           Append(schedule_messages, [role |-> "user", content |-> prompt])
    /\ state' = InitialState(prompt, heap)
    /\ heap' = New(New(heap, <<>>), <<>>)
    /\ calls' = <<>>
    /\ pc' = "retrieve"
    /\ UNCHANGED <<locals, errors>>
    /\ UNCHANGED ivars

Collect(h, msgs) == [a \in DOMAIN h \cap Referenced(msgs) |-> h[a]]

\* variant: the default text is stored in place of the generation
RespondDefault ==
    /\ pc = "END"
    /\ LET msgs == Append(schedule_messages,
                          [role |-> "assistant",
                           content |-> "No response generated",
                           steps |-> state.steps])
       IN /\ schedule_messages' = msgs
          /\ heap' = Collect(heap, msgs)
    /\ state' = NoState
    /\ locals' = NoLocals
    /\ pc' = "idle"
    /\ UNCHANGED <<calls, errors, requests>>
    /\ UNCHANGED ivars

\* app.invoke returned: the assistant message is stored
Respond ==
    /\ pc = "END"
    /\ LET msgs == Append(schedule_messages,
                          [role |-> "assistant", content |-> state.generation,
                           steps |-> state.steps])
       IN /\ schedule_messages' = msgs
          /\ heap' = Collect(heap, msgs)
    /\ state' = NoState
    /\ locals' = NoLocals
    /\ pc' = "idle"
    /\ UNCHANGED <<calls, errors, requests>>
    /\ UNCHANGED ivars

\* variant: what the run had reached is stored as an assistant message
CatchPartial ==
    /\ pc = "raised"
    /\ errors' = errors + 1
    /\ LET msgs == Append(schedule_messages,
                          [role |-> "assistant", content |-> state.generation,
                           steps |-> state.steps])
       IN /\ schedule_messages' = msgs
          /\ heap' = Collect(heap, msgs)
    /\ state' = NoState
    /\ locals' = NoLocals
    /\ pc' = "idle"
    /\ UNCHANGED <<calls, requests>>
    /\ UNCHANGED ivars

\* app.invoke raised: except Exception -> st.error
Catch ==
    /\ pc = "raised"
    /\ errors' = errors + 1
    /\ heap' = Collect(heap, schedule_messages)
    /\ state' = NoState
    /\ locals' = NoLocals
    /\ pc' = "idle"
    /\ UNCHANGED <<schedule_messages, calls, requests>>
    /\ UNCHANGED ivars

\* variant: the node is run again after an exception
RaiseRetry(svc, arg) ==
    /\ calls' = Append(calls, Call(svc, arg, FALSE, <<>>))
    /\ pc' = pc

\* an exception leaves the node; the graph does not handle it
Raise(svc, arg) ==
    /\ calls' = Append(calls, Call(svc, arg, FALSE, <<>>))
    /\ pc' = "raised"

\* ------------------------------------------------------------- retrieve
\* steps = state["steps"] if it is non-empty, else a new list
RetrieveSteps(h, st) ==
    IF h[st.steps] # <<>> THEN st.steps ELSE Alloc(h)

\* variant: the retrieval step is not recorded
RetrieveTraceSilent(h, s) == h

\* steps.append("retrieve_documents")
RetrieveTrace(h, s) == ListAppend(h, s, "retrieve_documents")

Retrieve ==
    /\ pc = "retrieve"
    /\ \E documents \in RetrieverOutputs :
          LET h1 == New(heap, documents)
              d == Alloc(heap)
              s == RetrieveSteps(h1, state)
              h2 == IF s \in DOMAIN h1 THEN h1 ELSE New(h1, <<>>)
          IN /\ heap' = RetrieveTrace(h2, s)
             /\ state' = [state EXCEPT !.documents = d, !.steps = s]
             /\ calls' = Append(calls, Call("retriever", state.question,
                                            TRUE, documents))
    /\ pc' = "grade_documents"
    /\ UNCHANGED <<schedule_messages, locals, errors, requests>>
    /\ UNCHANGED ivars

RetrieveRaise ==
    /\ pc = "retrieve"
    /\ Raise("retriever", state.question)
    /\ UNCHANGED <<schedule_messages, state, heap, locals, errors, requests>>
    /\ UNCHANGED ivars

\* ------------------------------------------------------ grade_documents
\* variant: every answer but "no" keeps the chunk
KeepUnlessNo(grade) == grade # "no"

\* the test of the loop body: only the exact string "yes" keeps the chunk
Keep(grade) == grade = "yes"

\* variant: the flag follows the last grade only
NextSearchLast(search, grade) == IF Keep(grade) THEN "No" ELSE "Yes"

\* the flag after one more grade
NextSearch(search, grade) == IF Keep(grade) THEN search ELSE "Yes"

\* variant: the flag starts raised
GradeLocalsSearching(f) == [filtered_docs |-> f, search |-> "Yes", i |-> 1]

\* filtered_docs = [], search = "No", and the loop at its first chunk
GradeLocals(f) == [filtered_docs |-> f, search |-> "No", i |-> 1]

\* the trace entry is appended before any chunk is graded
GradeDocumentsEnter ==
    /\ pc = "grade_documents"
    /\ LET h1 == ListAppend(heap, state.steps, "grade_document_retrieval")
       IN /\ heap' = New(h1, <<>>)
          /\ locals' = GradeLocals(Alloc(h1))
    /\ pc' = "grading"
    /\ UNCHANGED <<schedule_messages, state, calls, errors, requests>>
    /\ UNCHANGED ivars

GraderArg(d) == [question |-> state.question, documents |-> d.page_content]

\* one pass of the loop: one grader call for the next chunk
GradeOne ==
    /\ pc = "grading"
    /\ locals.i <= Len(Docs)
    /\ \E grade \in Grades :
          LET d == Docs[locals.i]
          IN /\ calls' = Append(calls, Call("grader", GraderArg(d), TRUE, grade))
             /\ heap' = IF Keep(grade)
                        THEN ListAppend(heap, locals.filtered_docs, d)
                        ELSE heap
             /\ locals' = [locals EXCEPT !.search = NextSearch(@, grade),
                                         !.i = @ + 1]
    /\ UNCHANGED <<schedule_messages, pc, state, errors, requests>>
    /\ UNCHANGED ivars

GradeRaise ==
    /\ pc = "grading"
    /\ locals.i <= Len(Docs)
    /\ Raise("grader", GraderArg(Docs[locals.i]))
    /\ UNCHANGED <<schedule_messages, state, heap, locals, errors, requests>>
    /\ UNCHANGED ivars

\* ---------------------------------------------- decide_to_generate, edges
\* variant: the two answers swapped
decide_to_generate_swapped(st) ==
    IF st.search = "Yes" THEN "generate" ELSE "search"

decide_to_generate(st) == IF st.search = "Yes" THEN "search" ELSE "generate"

\* variant: both keys lead to generate
BranchTargetGenerate(key) == "generate"

\* the path map of add_conditional_edges
BranchTarget(key) == IF key = "search" THEN "web_search" ELSE "generate"

\* variant: the unfiltered list is returned
GradeUpdateUnfiltered(st, l) == [st EXCEPT !.search = l.search]

\* the dict grade_documents returns, merged into the state
GradeUpdate(st, l) ==
    [st EXCEPT !.documents = l.filtered_docs, !.search = l.search]

\* the loop is over: the update is merged and the branch taken
GradeDocumentsReturn ==
    /\ pc = "grading"
    /\ locals.i > Len(Docs)
    /\ state' = GradeUpdate(state, locals)
    /\ pc' = BranchTarget(decide_to_generate(state'))
    /\ UNCHANGED <<schedule_messages, heap, locals, calls, errors, requests>>
    /\ UNCHANGED ivars

\* ----------------------------------------------------------- web_search
\* variant: the whole result is kept as metadata
WebDocumentWhole(d) == Document(d.content, d)

WebDocument(d) == Document(d.content, [url |-> d.url])

WebDocuments(web_results) ==
    [k \in 1..Len(web_results) |-> WebDocument(web_results[k])]

WebSearch ==
    /\ pc = "web_search"
    /\ \E web_results \in SearchOutputs :
          LET h1 == ListAppend(heap, state.steps, "web_search")
          IN /\ heap' = ListExtend(h1, state.documents,
                                   WebDocuments(web_results))
             /\ calls' = Append(calls, Call("web_search", state.question,
                                            TRUE, web_results))
    /\ pc' = "generate"
    /\ UNCHANGED <<schedule_messages, state, locals, errors, requests>>
    /\ UNCHANGED ivars

\* the trace entry is appended before the search tool is called
WebSearchRaise ==
    /\ pc = "web_search"
    /\ heap' = ListAppend(heap, state.steps, "web_search")
    /\ Raise("web_search", state.question)
    /\ UNCHANGED <<schedule_messages, state, locals, errors, requests>>
    /\ UNCHANGED ivars

\* ------------------------------------------------------------- generate
\* variant: the generation step is not recorded
GenerateStepsSilent(h, st) == h

\* steps.append("generate_answer")
GenerateSteps(h, st) == ListAppend(h, st.steps, "generate_answer")

Generate ==
    /\ pc = "generate"
    /\ \E generation \in Generations :
          /\ calls' = Append(calls,
                 Call("rag_chain",
                      [documents |-> Docs, question |-> state.question],
                      TRUE, generation))
          /\ state' = [state EXCEPT !.generation = generation]
    /\ heap' = GenerateSteps(heap, state)
    /\ pc' = "END"
    /\ UNCHANGED <<schedule_messages, locals, errors, requests>>
    /\ UNCHANGED ivars

\* the chain is invoked before the trace entry is appended
GenerateRaise ==
    /\ pc = "generate"
    /\ Raise("rag_chain", [documents |-> Docs, question |-> state.question])
    /\ UNCHANGED <<schedule_messages, state, heap, locals, errors, requests>>
    /\ UNCHANGED ivars


\* ------------------------------------------- create_or_load_vectorstore
ChunkSize == 100
ChunkOverlap == 50

\* a source string, as far as the code looks at it: how it starts and ends
SourceKinds ==
    {[head |-> "http", tail |-> ".html"], [head |-> "http", tail |-> ".pdf"],
     [head |-> "./", tail |-> ".pdf"], [head |-> "./", tail |-> ".docx"]}

SourceLists == SeqsUpTo(SourceKinds, MaxSources)

\* the module's own source list: one local pdf
sources == <<[head |-> "./", tail |-> ".pdf"]>>

StartsWithHttp(source) == source.head = "http"
EndsWithPdf(source) == source.tail = ".pdf"

\* variant: everything that is not a url is read as a pdf
LoaderForLenient(source) ==
    IF StartsWithHttp(source) THEN "WebBaseLoader" ELSE "PyPDFLoader"

\* the branch load_documents takes for one source
LoaderFor(source) ==
    IF StartsWithHttp(source) THEN "WebBaseLoader"
    ELSE IF EndsWithPdf(source) THEN "PyPDFLoader"
    ELSE "ValueError"

\* what loader.load() can return for a source: one document of some length
\* (in tokens)
DocTokens == {50, 150}
LoaderOutputs(source) ==
    {<<[source |-> source, tokens |-> n]>> : n \in DocTokens}

\* the splitter: chunks of at most ChunkSize tokens, ChunkOverlap shared
NumChunks(n) ==
    IF n <= ChunkSize THEN 1
    ELSE 1 + ((n - ChunkSize) + (ChunkSize - ChunkOverlap) - 1)
                 \div (ChunkSize - ChunkOverlap)

SplitDocument(d) ==
    [k \in 1..NumChunks(d.tokens) |->
        Document([from |-> (k - 1) * (ChunkSize - ChunkOverlap),
                  to |-> IF (k - 1) * (ChunkSize - ChunkOverlap) + ChunkSize
                            < d.tokens
                         THEN (k - 1) * (ChunkSize - ChunkOverlap) + ChunkSize
                         ELSE d.tokens],
                 [source |-> d.source])]

RECURSIVE SplitDocuments(_)
SplitDocuments(docs) ==
    IF docs = <<>> THEN <<>>
    ELSE SplitDocument(Head(docs)) \o SplitDocuments(Tail(docs))

\* FAISS.from_documents: one vector per chunk and the chunks themselves
FromDocuments(doc_splits) ==
    [vectors |-> Len(doc_splits), docstore |-> doc_splits]

NoVectorstore == [vectors |-> -1, docstore |-> <<>>]

\* the two files of a saved index: index.faiss and index.pkl
NoFile ==
    [faiss_exists |-> FALSE, vectors |-> 0,
     pkl_exists |-> FALSE, docstore |-> <<>>]

\* variant: the chunks are not written
SaveLocalEmpty(vs) ==
    [faiss_exists |-> TRUE, vectors |-> vs.vectors,
     pkl_exists |-> TRUE, docstore |-> <<>>]

\* vectorstore.save_local
SaveLocal(vs) ==
    [faiss_exists |-> TRUE, vectors |-> vs.vectors,
     pkl_exists |-> TRUE, docstore |-> vs.docstore]

\* a save that failed after index.faiss was written
SaveLocalPartial(d, vs) ==
    [d EXCEPT !.faiss_exists = TRUE, !.vectors = vs.vectors]

\* FAISS.load_local needs both files
Readable(d) == d.faiss_exists /\ d.pkl_exists

LoadLocal(d) == [vectors |-> d.vectors, docstore |-> d.docstore]

\* variant: the build is chosen although the file is there
IndexExistsNever(d) == FALSE

\* os.path.exists(f"{index_path}/index.faiss")
IndexExists(d) == d.faiss_exists

NoFrame ==
    [sources |-> <<>>, j |-> 0, docs |-> <<>>,
     vectorstore |-> NoVectorstore, error |-> ""]

NoEntry == [disk |-> NoFile, ipc |-> "off", ilog |-> <<>>,
            vectorstore |-> NoVectorstore]

\* the index of the module's own source list, and the disks a process can
\* find when it starts
OwnStore ==
    FromDocuments(SplitDocuments(<<[source |-> sources[1], tokens |-> 150]>>))

InitialDisks ==
    {NoFile, SaveLocal(OwnStore), SaveLocalPartial(NoFile, OwnStore)}

InitIndex ==
    /\ InitPipeline
    /\ disk \in InitialDisks
    /\ ipc = "off"
    /\ frame = NoFrame
    /\ ilog = <<>>
    /\ entry = NoEntry
    /\ ncalls = 0

\* the module has been imported: the index was built and saved
Init ==
    /\ InitPipeline
    /\ disk = SaveLocal(OwnStore)
    /\ ipc = "returned"
    /\ frame = [sources |-> sources, j |-> 2,
                docs |-> <<[source |-> sources[1], tokens |-> 150]>>,
                vectorstore |-> OwnStore, error |-> ""]
    /\ ilog = <<"not_found", "PyPDFLoader", "from_documents", "save_local">>
    /\ entry = NoEntry
    /\ ncalls = 1

\* the function is called
CreateOrLoad(srcs) ==
    /\ ipc \in {"off", "returned", "raised"}
    /\ ncalls < MaxCalls
    /\ ncalls' = ncalls + 1
    /\ entry' = [disk |-> disk, ipc |-> ipc, ilog |-> ilog,
                 vectorstore |-> frame.vectorstore]
    /\ frame' = [NoFrame EXCEPT !.sources = srcs, !.j = 1]
    /\ ilog' = <<>>
    /\ ipc' = "exists"
    /\ UNCHANGED disk
    /\ UNCHANGED pvars

\* if os.path.exists(...): ... else: print("Vector store not found ...")
CheckExists ==
    /\ ipc = "exists"
    /\ IF IndexExists(disk)
       THEN ipc' = "load_local" /\ ilog' = ilog
       ELSE ipc' = "load_documents" /\ ilog' = Append(ilog, "not_found")
    /\ UNCHANGED <<disk, frame, entry, ncalls>>
    /\ UNCHANGED pvars

\* FAISS.load_local returned: the function returns the loaded index
LoadLocalReturn ==
    /\ ipc = "load_local"
    /\ Readable(disk)
    /\ frame' = [frame EXCEPT !.vectorstore = LoadLocal(disk)]
    /\ ilog' = Append(ilog, "load_local")
    /\ ipc' = "returned"
    /\ UNCHANGED <<disk, entry, ncalls>>
    /\ UNCHANGED pvars

\* FAISS.load_local (or OpenAIEmbeddings()) raised: printed, then the build
LoadLocalError ==
    /\ ipc = "load_local"
    /\ ilog' = Append(ilog, "Error loading vector store")
    /\ ipc' = "load_documents"
    /\ UNCHANGED <<disk, frame, entry, ncalls>>
    /\ UNCHANGED pvars

\* load_documents, one pass of its loop: the source is loaded, or it is of
\* no supported kind and ValueError leaves the function
LoadSource ==
    /\ ipc = "load_documents"
    /\ frame.j <= Len(frame.sources)
    /\ LET source == frame.sources[frame.j]
       IN IF LoaderFor(source) = "ValueError"
          THEN /\ frame' = [frame EXCEPT !.error = "Unsupported source type"]
               /\ ilog' = Append(ilog, "ValueError")
               /\ ipc' = "raised"
          ELSE \E loaded \in LoaderOutputs(source) :
                  /\ frame' = [frame EXCEPT !.docs = @ \o loaded, !.j = @ + 1]
                  /\ ilog' = Append(ilog, LoaderFor(source))
                  /\ ipc' = "load_documents"
    /\ UNCHANGED <<disk, entry, ncalls>>
    /\ UNCHANGED pvars

\* loader.load() raised
LoadSourceError ==
    /\ ipc = "load_documents"
    /\ frame.j <= Len(frame.sources)
    /\ LoaderFor(frame.sources[frame.j]) # "ValueError"
    /\ frame' = [frame EXCEPT !.error = "loader"]
    /\ ilog' = Append(ilog, "loader_error")
    /\ ipc' = "raised"
    /\ UNCHANGED <<disk, entry, ncalls>>
    /\ UNCHANGED pvars

\* the sources are loaded: split, embed and index
Build ==
    /\ ipc = "load_documents"
    /\ frame.j > Len(frame.sources)
    /\ frame' = [frame EXCEPT
                   !.vectorstore = FromDocuments(SplitDocuments(frame.docs))]
    /\ ilog' = Append(ilog, "from_documents")
    /\ ipc' = "save_local"
    /\ UNCHANGED <<disk, entry, ncalls>>
    /\ UNCHANGED pvars

\* the splitter, the embedding service or FAISS raised
BuildError ==
    /\ ipc = "load_documents"
    /\ frame.j > Len(frame.sources)
    /\ frame' = [frame EXCEPT !.error = "from_documents"]
    /\ ilog' = Append(ilog, "from_documents_error")
    /\ ipc' = "raised"
    /\ UNCHANGED <<disk, entry, ncalls>>
    /\ UNCHANGED pvars

\* the index is saved and returned
Save ==
    /\ ipc = "save_local"
    /\ disk' = SaveLocal(frame.vectorstore)
    /\ ilog' = Append(ilog, "save_local")
    /\ ipc' = "returned"
    /\ UNCHANGED <<frame, entry, ncalls>>
    /\ UNCHANGED pvars

\* variant: the save error leaves the function
SaveErrorRaised ==
    /\ ipc = "save_local"
    /\ disk' \in {disk, SaveLocalPartial(disk, frame.vectorstore)}
    /\ ilog' = Append(ilog, "Error saving vector store")
    /\ ipc' = "raised"
    /\ UNCHANGED <<frame, entry, ncalls>>
    /\ UNCHANGED pvars

\* makedirs or save_local raised: printed, and the index is returned all the
\* same; the disk is as before or holds a new index.faiss only
SaveError ==
    /\ ipc = "save_local"
    /\ disk' \in {disk, SaveLocalPartial(disk, frame.vectorstore)}
    /\ ilog' = Append(ilog, "Error saving vector store")
    /\ ipc' = "returned"
    /\ UNCHANGED <<frame, entry, ncalls>>
    /\ UNCHANGED pvars

NextIndex ==
    \/ \E srcs \in SourceLists : CreateOrLoad(srcs)
    \/ CheckExists
    \/ LoadLocalReturn
    \/ LoadLocalError
    \/ LoadSource
    \/ LoadSourceError
    \/ Build
    \/ BuildError
    \/ Save
    \/ SaveError

SpecIndex == InitIndex /\ [][NextIndex]_vars

\* ------------------------------------------------------------------ spec
Next ==
    \/ \E prompt \in Questions : Submit(prompt)
    \/ Retrieve
    \/ RetrieveRaise
    \/ GradeDocumentsEnter
    \/ GradeOne
    \/ GradeRaise
    \/ GradeDocumentsReturn
    \/ WebSearch
    \/ WebSearchRaise
    \/ Generate
    \/ GenerateRaise
    \/ Respond
    \/ Catch

Spec == Init /\ [][Next]_vars

\* a run of the graph, once entered, is carried on: app.invoke runs the nodes
\* one after the other on the handler's thread, and every call returns or
\* raises
Run ==
    \/ Retrieve
    \/ RetrieveRaise
    \/ GradeDocumentsEnter
    \/ GradeOne
    \/ GradeRaise
    \/ GradeDocumentsReturn
    \/ WebSearch
    \/ WebSearchRaise
    \/ Generate
    \/ GenerateRaise
    \/ Respond
    \/ Catch

SpecFair == Spec /\ WF_vars(Run)

TypeOK ==
    /\ pc \in Nodes \cup {"idle", "grading", "END", "raised"}
    /\ requests \in 0..MaxRequests
    /\ errors \in 0..MaxRequests
    /\ state.search \in {"", "Yes", "No"}

\* =============================================================== properties
Count(seq, x) == Cardinality({k \in 1..Len(seq) : seq[k] = x})

IsPrefix(a, b) == Len(a) <= Len(b) /\ SubSeq(b, 1, Len(a)) = a

\* the positions in the call log of the calls to svc that returned
Returned(svc) == {k \in 1..Len(calls) : calls[k].svc = svc /\ calls[k].ok}

\* the retrieve node has run in the current request
RetrieveRan == pc # "idle" /\ Returned("retriever") # {}

\* the list the retriever returned
Retrieved == calls[CHOOSE k \in Returned("retriever") : TRUE].ret

\* the position in the call log of the n-th grader call
NthGrader(n) ==
    CHOOSE k \in Returned("grader") :
        Cardinality({j \in Returned("grader") : j < k}) = n - 1

\* the grader's answer for the n-th retrieved chunk
GradeOf(n) == calls[NthGrader(n)].ret

\* grade_documents has graded every retrieved chunk and returned
Graded == pc \in {"web_search", "generate", "END"}

SomeIrrelevant == \E n \in 1..Len(Retrieved) : GradeOf(n) # "yes"

\* the positions of the chunks graded "yes", and the list of those chunks in
\* retrieval order
YesPositions == {n \in 1..Len(Retrieved) : GradeOf(n) = "yes"}

NthYes(k) ==
    CHOOSE n \in YesPositions :
        Cardinality({m \in YesPositions : m < n}) = k - 1

Relevant == [k \in 1..Cardinality(YesPositions) |-> Retrieved[NthYes(k)]]

\* the result list the search service returned, if it was called
WebResults ==
    IF Returned("web_search") = {} THEN <<>>
    ELSE calls[CHOOSE k \in Returned("web_search") : TRUE].ret

\* the document list handed to the answer generator
Generated == Returned("rag_chain") # {}

PassedToGenerate ==
    calls[CHOOSE k \in Returned("rag_chain") : TRUE].arg.documents

IsWebDoc(d) == DOMAIN d.metadata = {"url"}

\* C1: when a request reaches END (every external call returned), its
\* step-trace holds "generate_answer" exactly once, as its last entry.
TheoremC1 ==
    pc = "END" =>
        /\ Count(Trace, "generate_answer") = 1
        /\ Trace[Len(Trace)] = "generate_answer"

WitnessC1 == pc = "END" /\ Len(Trace) = 4

\* C2: in every state of a request after the retrieve node has run, the
\* step-trace is non-empty and starts with "retrieve_documents"; so does every
\* trace stored with an assistant message.
TheoremC2 ==
    /\ RetrieveRan => Trace # <<>> /\ Trace[1] = "retrieve_documents"
    /\ \A a \in Referenced(schedule_messages) :
           heap[a] # <<>> /\ heap[a][1] = "retrieve_documents"

WitnessC2 == pc = "grade_documents" /\ RetrieveRan /\ Len(Trace) = 1

\* C3 as stated: if some retrieved chunk is graded irrelevant, the final trace
\* holds "web_search" exactly once and the final document list is a strict
\* superset of the filtered list, with at least one web document, whatever
\* the search service returned.
OriginalC3 ==
    (pc = "END" /\ SomeIrrelevant) =>
        /\ Count(Trace, "web_search") = 1
        /\ IsPrefix(Relevant, PassedToGenerate)
        /\ Len(PassedToGenerate) > Len(Relevant)
        /\ \E k \in 1..Len(PassedToGenerate) : IsWebDoc(PassedToGenerate[k])

\* C3 amended: if some retrieved chunk is graded irrelevant, the final trace
\* holds "web_search" exactly once and the final document list is the
\* filtered list followed by one document per search result; it is a strict
\* superset of the filtered list exactly when the search returned a result.
TheoremC3 ==
    (pc = "END" /\ SomeIrrelevant) =>
        /\ Count(Trace, "web_search") = 1
        /\ IsPrefix(Relevant, PassedToGenerate)
        /\ Len(PassedToGenerate) = Len(Relevant) + Len(WebResults)
        /\ \A k \in (Len(Relevant) + 1)..Len(PassedToGenerate) :
               IsWebDoc(PassedToGenerate[k])
        /\ Len(PassedToGenerate) > Len(Relevant) <=> WebResults # <<>>
        /\ Docs = PassedToGenerate

WitnessC3 ==
    /\ pc = "END"
    /\ SomeIrrelevant
    /\ Relevant # <<>>
    /\ WebResults = <<>>
    /\ Count(Trace, "web_search") = 1

\* C4: if every retrieved chunk is graded "yes" (also when none was
\* retrieved), "web_search" is not in the trace and the list passed to the
\* generator is the filtered list, which is the retrieved list.
TheoremC4 ==
    (Graded /\ ~SomeIrrelevant) =>
        /\ pc # "web_search"
        /\ Count(Trace, "web_search") = 0
        /\ Relevant = Retrieved
        /\ Docs = Retrieved
        /\ state.documents = locals.filtered_docs
        /\ Generated => PassedToGenerate = Retrieved

WitnessC4 ==
    pc = "END" /\ ~SomeIrrelevant /\ Len(Retrieved) >= 1 /\ Generated

\* C5: the node after grade_documents is web_search exactly when the state's
\* search flag is "Yes", and generate otherwise; web_search is followed by
\* generate, generate by END, retrieve by grade_documents. A node is left in
\* no other way, except by an exception, which leaves the graph.
StepC5 ==
    /\ (pc = "grading" /\ pc' \notin {"grading", "raised"}) =>
           /\ state'.search = "Yes" => pc' = "web_search"
           /\ state'.search # "Yes" => pc' = "generate"
    /\ pc = "retrieve" => pc' \in {"grade_documents", "raised"}
    /\ pc = "grade_documents" => pc' = "grading"
    /\ pc = "web_search" => pc' \in {"generate", "raised"}
    /\ pc = "generate" => pc' \in {"END", "raised"}
    /\ pc' = "END" => pc = "generate"
    /\ pc = "END" => pc' = "idle"

TheoremC5 == [][StepC5]_vars

WitnessC5 == pc = "END" /\ state.search = "Yes" /\ Len(Trace) = 4

\* grade_documents has just returned: its update is in the state and no later
\* node has touched it
JustGraded ==
    \/ pc = "web_search"
    \/ pc = "generate" /\ Returned("web_search") = {}

\* C6: grade_documents calls the grader once per retrieved chunk and outputs
\* (a) the chunks graded exactly "yes", in retrieval order, and (b) the flag
\* "Yes" if some chunk got another grade, "No" if none did.
TheoremC6 ==
    JustGraded =>
        /\ Cardinality(Returned("grader")) = Len(Retrieved)
        /\ Docs = Relevant
        /\ SomeIrrelevant => state.search = "Yes"
        /\ ~SomeIrrelevant => state.search = "No"

WitnessC6 ==
    /\ JustGraded
    /\ Len(Retrieved) = 2
    /\ GradeOf(1) = "Yes"
    /\ GradeOf(2) = "yes"
    /\ state.search = "Yes"

\* C7 as stated: after an empty retrieval grade_documents yields an empty
\* list and the flag "Yes", and web_search runs before generate.
OriginalC7 ==
    (RetrieveRan /\ Retrieved = <<>> /\ pc = "generate") =>
        /\ state.search = "Yes"
        /\ Count(Trace, "web_search") = 1

\* C7 amended: after an empty retrieval grade_documents yields an empty
\* list and the flag "No"; web_search does not run and generate gets an empty
\* document list.
TheoremC7 ==
    (RetrieveRan /\ Retrieved = <<>> /\ Graded) =>
        /\ state.search = "No"
        /\ Docs = <<>>
        /\ pc # "web_search"
        /\ Count(Trace, "web_search") = 0
        /\ Returned("web_search") = {}
        /\ Generated => PassedToGenerate = <<>>

WitnessC7 == pc = "END" /\ Retrieved = <<>> /\ Generated /\ Len(Trace) = 3

\* C8: web_search keeps the list object it got, leaves the filtered
\* documents in place and in order, and adds after them one document per
\* search result, in result order, with the result's content and a metadata
\* record whose only key is "url", holding the result's url.
StepC8 ==
    (pc = "web_search" /\ pc' = "generate") =>
        /\ state'.documents = state.documents
        /\ IsPrefix(Docs, Docs')
        /\ Len(Docs') = Len(Docs) + Len(WebResults')
        /\ \A k \in 1..Len(WebResults') :
               /\ Docs'[Len(Docs) + k].page_content = WebResults'[k].content
               /\ DOMAIN Docs'[Len(Docs) + k].metadata = {"url"}
               /\ Docs'[Len(Docs) + k].metadata.url = WebResults'[k].url

TheoremC8 == [][StepC8]_vars

WitnessC8 ==
    /\ pc = "generate"
    /\ Len(WebResults) = 2
    /\ WebResults[1] # WebResults[2]
    /\ Relevant # <<>>
    /\ Len(Docs) = Len(Relevant) + 2

RECURSIVE IsSubsequence(_, _)
IsSubsequence(a, b) ==
    IF a = <<>> THEN TRUE
    ELSE IF b = <<>> THEN FALSE
    ELSE IF Head(a) = Head(b) THEN IsSubsequence(Tail(a), Tail(b))
    ELSE IsSubsequence(a, Tail(b))

\* C9: within a run the step-trace only grows at its end; the document list
\* set by retrieve changes only when grade_documents returns, where it keeps a
\* subsequence of its elements, and in web_search, where it keeps its elements
\* and gains new ones at the end; generation is "" until generate has run.
StepC9 ==
    /\ (pc # "idle" /\ pc' # "idle") => IsPrefix(Trace, Trace')
    /\ (pc = "grading" /\ pc' \in {"web_search", "generate"}) =>
           IsSubsequence(Docs', Docs)
    /\ pc = "web_search" => IsPrefix(Docs, Docs')
    /\ (pc \in {"grade_documents", "generate", "END", "raised"}
           \/ (pc = "grading" /\ pc' \in {"grading", "raised"})) =>
           (pc' # "idle" => Docs' = Docs)
    /\ pc # "END" => state.generation = ""
    /\ pc' # "END" => state'.generation = ""

TheoremC9 == [][StepC9]_vars

WitnessC9 ==
    /\ pc = "END"
    /\ Len(Relevant) < Len(Retrieved)
    /\ Relevant # <<>>
    /\ WebResults # <<>>
    /\ state.generation # ""

\* C10: if at least one chunk was retrieved and every one is graded
\* irrelevant, the flag is "Yes", web_search runs, and the list passed to the
\* generator holds the web results' documents and no retrieved chunk.
TheoremC10 ==
    (Graded /\ Len(Retrieved) >= 1 /\ YesPositions = {}) =>
        /\ state.search = "Yes"
        /\ pc # "web_search" => Count(Trace, "web_search") = 1
        /\ Generated =>
              /\ Returned("web_search") # {}
              /\ Len(PassedToGenerate) = Len(WebResults)
              /\ \A k \in 1..Len(PassedToGenerate) :
                     /\ IsWebDoc(PassedToGenerate[k])
                     /\ PassedToGenerate[k].page_content = WebResults[k].content
                     /\ \A n \in 1..Len(Retrieved) :
                            PassedToGenerate[k] # Retrieved[n]

WitnessC10 ==
    /\ pc = "END"
    /\ Len(Retrieved) = 2
    /\ YesPositions = {}
    /\ Len(WebResults) >= 1
    /\ Generated

\* the positions in the call log of the calls that raised
Failed == {k \in 1..Len(calls) : ~calls[k].ok}

AssistantMessages ==
    {k \in 1..Len(schedule_messages) : schedule_messages[k].role = "assistant"}

\* C11: an exception raised in a node ends the run: no node handles it and no
\* later call is made; run_streamlit catches it, shows one error message and
\* appends no assistant message, and the user message of the request stays
\* the last message of the history.
StepC11 ==
    /\ (pc' = "raised" /\ pc # "raised") =>
           /\ pc \in {"retrieve", "grading", "web_search", "generate"}
           /\ schedule_messages' = schedule_messages
           /\ errors' = errors
    /\ pc = "raised" =>
           /\ pc' = "idle"
           /\ errors' = errors + 1
           /\ schedule_messages' = schedule_messages
           /\ calls' = calls
           /\ schedule_messages[Len(schedule_messages)] =
                  [role |-> "user", content |-> state.question]
    /\ Failed # {} =>
           /\ Failed = {Len(calls)}
           /\ pc \in {"raised", "idle"}
           /\ schedule_messages[Len(schedule_messages)].role = "user"
    /\ Cardinality(AssistantMessages) + errors
           + (IF pc = "idle" THEN 0 ELSE 1) = requests

TheoremC11 == [][StepC11]_vars

WitnessC11 ==
    /\ pc = "idle"
    /\ errors = 1
    /\ requests = 1
    /\ Failed # {}
    /\ calls[Len(calls)].svc = "grader"
    /\ Len(calls) = 3
    /\ Len(schedule_messages) = 1

\* C12: a step of a node leaves the list objects its input state holds as
\* they were: neither the step-trace list nor the document list of the state
\* the node received is changed in place.
StepC12 ==
    pc \in {"retrieve", "grade_documents", "grading", "web_search",
            "generate"} =>
        /\ heap'[state.steps] = heap[state.steps]
        /\ heap'[state.documents] = heap[state.documents]

OriginalC12 == [][StepC12]_vars

\* the documents the current request got from its own retriever and search
\* calls
OwnDocuments ==
    {Retrieved[n] : n \in 1..Len(Retrieved)}
        \cup {WebDocument(WebResults[k]) : k \in 1..Len(WebResults)}

\* C13: every request starts from a new state: empty trace and document list
\* in list objects no stored message holds, empty generation and flag. Its
\* trace holds each step at most once and its documents are those its own
\* retriever and search calls returned. The history only grows, and no step
\* changes a trace stored with an earlier assistant message.
StepC13 ==
    /\ (pc = "idle" /\ pc' # "idle") =>
           /\ pc' = "retrieve"
           /\ Trace' = <<>> /\ Docs' = <<>>
           /\ state'.generation = "" /\ state'.search = ""
           /\ state'.steps \notin DOMAIN heap
           /\ state'.documents \notin DOMAIN heap
           /\ state'.steps # state'.documents
           /\ calls' = <<>>
    /\ pc # "idle" =>
           /\ state.steps \notin Referenced(schedule_messages)
           /\ state.documents \notin Referenced(schedule_messages)
           /\ \A x \in {"retrieve_documents", "grade_document_retrieval",
                        "web_search", "generate_answer"} : Count(Trace, x) <= 1
           /\ \A k \in 1..Len(Trace) :
                  Trace[k] \in {"retrieve_documents",
                                "grade_document_retrieval",
                                "web_search", "generate_answer"}
    /\ (pc # "idle" /\ RetrieveRan) =>
           /\ \A k \in 1..Len(Docs) : Docs[k] \in OwnDocuments
           /\ Len(Docs) <= Len(Retrieved) + Len(WebResults)
    /\ IsPrefix(schedule_messages, schedule_messages')
    /\ Cardinality(Referenced(schedule_messages))
           = Cardinality(AssistantMessages)
    /\ \A a \in Referenced(schedule_messages) :
           a \in DOMAIN heap /\ a \in DOMAIN heap' /\ heap'[a] = heap[a]

TheoremC13 == [][StepC13]_vars

WitnessC13 ==
    /\ requests = 2
    /\ pc = "END"
    /\ Len(Trace) = 3
    /\ AssistantMessages = {2}
    /\ Len(heap[schedule_messages[2].steps]) = 4

\* what the current call of create_or_load_vectorstore has done
Logged(e) == \E k \in 1..Len(ilog) : ilog[k] = e

\* the call is over: it returned an index or an exception left it
CallOver == ncalls >= 1 /\ ipc \in {"returned", "raised"}

Unsupported(source) == source.head # "http" /\ source.tail # ".pdf"

HasUnsupported(srcs) == \E k \in 1..Len(srcs) : Unsupported(srcs[k])

FirstUnsupported(srcs) ==
    CHOOSE k \in 1..Len(srcs) :
        Unsupported(srcs[k]) /\ \A m \in 1..(k - 1) : ~Unsupported(srcs[m])

\* C14 as stated: whenever the source list holds a source that neither
\* starts with "http" nor ends with ".pdf", the call fails with the
\* unsupported-source error, and no index is built, persisted or returned.
OriginalC14 ==
    (CallOver /\ HasUnsupported(frame.sources)) =>
        /\ ipc = "raised"
        /\ frame.error = "Unsupported source type"
        /\ frame.vectorstore = NoVectorstore
        /\ ~Logged("from_documents")
        /\ disk = entry.disk

\* C14 amended: with such a source in the list, a call that does not get the
\* persisted index (no index.faiss, or loading it raised) ends with an
\* exception before any index is built, persisted or returned: the
\* unsupported-source error at the first such source if every source before
\* it loaded, else the error of the loader that raised. A call that loads the
\* persisted index returns it and does not look at the sources.
TheoremC14 ==
    (CallOver /\ HasUnsupported(frame.sources)) =>
        IF Logged("load_local")
        THEN /\ ipc = "returned"
             /\ frame.vectorstore = LoadLocal(entry.disk)
             /\ frame.j = 1
             /\ ilog = <<"load_local">>
        ELSE /\ ipc = "raised"
             /\ frame.vectorstore = NoVectorstore
             /\ ~Logged("from_documents")
             /\ disk = entry.disk
             /\ frame.error \in {"Unsupported source type", "loader"}
             /\ frame.error = "Unsupported source type" <=>
                    ~Logged("loader_error")
             /\ frame.error = "Unsupported source type" =>
                    frame.j = FirstUnsupported(frame.sources)

WitnessC14 ==
    /\ ipc = "raised"
    /\ frame.error = "Unsupported source type"
    /\ frame.j = 2
    /\ Logged("Error loading vector store")
    /\ entry.disk.faiss_exists

InSeq(sq, e) == \E k \in 1..Len(sq) : sq[k] = e

\* the call before the current one built the index and saved it
BuiltAndSaved == ncalls >= 2 /\ InSeq(entry.ilog, "save_local")

\* the call before the current one built the index
Built == ncalls >= 2 /\ InSeq(entry.ilog, "from_documents")

BuildSteps ==
    {"WebBaseLoader", "PyPDFLoader", "ValueError", "loader_error",
     "from_documents", "from_documents_error"}

Uncaught == {"ValueError", "loader_error", "from_documents_error"}

\* C16 as stated: a load failure is logged and followed by the rebuild, and
\* a failure of the rebuild (sources, build or save) is only logged, never
\* raised to the caller.
OriginalC16 ==
    CallOver =>
        /\ Logged("Error loading vector store") =>
               Len(ilog) >= 2 /\ ilog[2] \in BuildSteps
        /\ ipc = "returned"

\* C16 amended: a load failure is logged and followed by the rebuild. A
\* failure to save is only logged: the built index is returned and nothing is
\* tried again. A failure to load a source or to build the index is neither
\* caught nor logged: it is raised to the caller, nothing is returned or
\* written, and nothing is tried again.
TheoremC16 ==
    CallOver =>
        /\ Logged("Error loading vector store") =>
               /\ entry.disk.faiss_exists
               /\ ilog[1] = "Error loading vector store"
               /\ Len(ilog) >= 2 /\ ilog[2] \in BuildSteps
        /\ Logged("Error saving vector store") =>
               /\ ipc = "returned"
               /\ ilog[Len(ilog)] = "Error saving vector store"
               /\ frame.vectorstore # NoVectorstore
               /\ frame.vectorstore =
                      FromDocuments(SplitDocuments(frame.docs))
               /\ ~Logged("save_local")
        /\ ipc = "raised" <=> ilog[Len(ilog)] \in Uncaught
        /\ ipc = "raised" =>
               /\ frame.error # ""
               /\ frame.vectorstore = NoVectorstore
               /\ disk = entry.disk
        /\ \A e \in {"Error loading vector store", "from_documents",
                     "from_documents_error", "save_local",
                     "Error saving vector store", "ValueError",
                     "loader_error"} : Count(ilog, e) <= 1
        /\ Count(ilog, "WebBaseLoader") + Count(ilog, "PyPDFLoader")
               <= Len(frame.sources)

WitnessC16 ==
    /\ ipc = "returned"
    /\ Logged("Error loading vector store")
    /\ Logged("Error saving vector store")
    /\ Len(frame.sources) = 2

\* C17 as stated: every handled chat input leaves one user message followed
\* by one assistant message in the history.
OriginalC17 ==
    pc = "idle" =>
        /\ Len(schedule_messages) = 2 * requests
        /\ \A k \in 1..Len(schedule_messages) :
               schedule_messages[k].role =
                   IF k % 2 = 1 THEN "user" ELSE "assistant"

\* C17 amended: a chat input whose run reaches END adds to the history its
\* user message followed by exactly one assistant message, which holds the
\* generation and the step-trace of that run; a chat input whose run raises
\* adds its user message only.
StepC17 ==
    /\ pc = "END" =>
           /\ pc' = "idle"
           /\ Len(schedule_messages') = Len(schedule_messages) + 1
           /\ IsPrefix(schedule_messages, schedule_messages')
           /\ schedule_messages[Len(schedule_messages)] =
                  [role |-> "user", content |-> state.question]
           /\ LET m == schedule_messages'[Len(schedule_messages')]
              IN /\ m.role = "assistant"
                 /\ m.content = state.generation
                 /\ m.content \in Generations
                 /\ heap'[m.steps] = Trace
                 /\ Trace[Len(Trace)] = "generate_answer"
    /\ (pc = "idle" /\ pc' # "idle") =>
           schedule_messages' =
               Append(schedule_messages,
                      [role |-> "user", content |-> state'.question])
    /\ pc \notin {"idle", "END"} => schedule_messages' = schedule_messages
    /\ pc = "idle" =>
           /\ Cardinality(AssistantMessages) = requests - errors
           /\ Len(schedule_messages) = 2 * requests - errors
           /\ \A k \in AssistantMessages :
                  k > 1 /\ schedule_messages[k - 1].role = "user"

TheoremC17 == [][StepC17]_vars

WitnessC17 ==
    /\ pc = "idle"
    /\ requests = 2
    /\ errors = 1
    /\ AssistantMessages = {3}
    /\ Len(heap[schedule_messages[3].steps]) = 4

\* the positions in the call log of all calls to svc, returned or not
Made(svc) == {k \in 1..Len(calls) : calls[k].svc = svc}

Rank(svc) ==
    CASE svc = "retriever" -> 1
      [] svc = "grader" -> 2
      [] svc = "web_search" -> 3
      [] svc = "rag_chain" -> 4

\* the position in the call log of the n-th call to the grader
NthGraderMade(n) ==
    CHOOSE k \in Made("grader") :
        Cardinality({j \in Made("grader") : j < k}) = n - 1

\* C18: in a request the retriever, the search service and the generator are
\* called at most once each and the grader at most once per retrieved chunk,
\* the n-th grader call being for the n-th chunk and made after the calls
\* before it returned; a run that reaches END called the retriever once, the
\* grader once per chunk, the generator once and the search service once if
\* the flag is "Yes" and not at all otherwise; after a call that raised no
\* call is made.
StepC18 ==
    /\ Cardinality(Made("retriever")) <= 1
    /\ Cardinality(Made("web_search")) <= 1
    /\ Cardinality(Made("rag_chain")) <= 1
    /\ \A j, k \in 1..Len(calls) :
           j < k => calls[j].ok /\ Rank(calls[j].svc) <= Rank(calls[k].svc)
    /\ Made("grader") # {} =>
           /\ Returned("retriever") # {}
           /\ Cardinality(Made("grader")) <= Len(Retrieved)
           /\ \A n \in 1..Cardinality(Made("grader")) :
                  calls[NthGraderMade(n)].arg =
                      [question |-> calls[1].arg,
                       documents |-> Retrieved[n].page_content]
    /\ Made("web_search") # {} =>
           /\ pc # "idle" => state.search = "Yes"
           /\ Cardinality(Returned("grader")) = Len(Retrieved)
    /\ pc = "END" =>
           /\ Cardinality(Returned("retriever")) = 1
           /\ Cardinality(Returned("grader")) = Len(Retrieved)
           /\ Cardinality(Returned("rag_chain")) = 1
           /\ Cardinality(Returned("web_search")) =
                  IF state.search = "Yes" THEN 1 ELSE 0
    /\ calls' # calls =>
           \/ pc = "idle" /\ calls' = <<>>
           \/ /\ Len(calls') = Len(calls) + 1
              /\ IsPrefix(calls, calls')
              /\ Failed = {}

TheoremC18 == [][StepC18]_vars

WitnessC18 ==
    /\ pc = "END"
    /\ Len(Retrieved) = 2
    /\ Retrieved[1] # Retrieved[2]
    /\ state.search = "Yes"
    /\ Len(calls) = 5

ShortTrace ==
    <<"retrieve_documents", "grade_document_retrieval", "generate_answer">>

LongTrace ==
    <<"retrieve_documents", "grade_document_retrieval", "web_search",
      "generate_answer">>

\* a run that is over: at END, or left by an exception
RunOver == pc \in {"END", "raised"}

\* C19: a request that has entered the graph reaches END unless one of its
\* calls raises; on the way no step is recorded twice, and at END the trace
\* is the three-step sequence if every grade was "yes" and the four-step
\* sequence with web_search if some grade was not.
SafeC19 ==
    /\ \A x \in {"retrieve_documents", "grade_document_retrieval",
                 "web_search", "generate_answer"} : Count(Trace, x) <= 1
    /\ pc = "END" =>
           /\ Failed = {}
           /\ Trace \in {ShortTrace, LongTrace}
           /\ Trace = LongTrace <=> SomeIrrelevant
           /\ Trace = ShortTrace <=> ~SomeIrrelevant
    /\ pc = "raised" => Failed # {}

TheoremC19 == []SafeC19 /\ (pc = "retrieve" ~> RunOver)

WitnessC19 ==
    /\ pc = "END"
    /\ Trace = LongTrace
    /\ Len(Retrieved) = 2
    /\ GradeOf(1) # "yes"
    /\ GradeOf(2) = "yes"

====
